---- MODULE Spec2Model ----
(***************************************************************************)
(* A model of the EVM interpreter of rust/src/lib.rs and rust/src/funcs.rs *)
(* as a small-step state machine.                                          *)
(*                                                                         *)
(* One call of evm(code, data, writable) is a frame.  The recursion of the *)
(* call family (CALL, DELEGATECALL, STATICCALL) is the sequence `frames`:  *)
(* the last frame is the one running, every frame below it is suspended    *)
(* inside the handler of its call opcode.  A frame that halts hands its    *)
(* EvmResult to the frame below, which finishes its call handler in the    *)
(* same step.  A Rust panic (unwrap of None, index out of bounds, integer  *)
(* overflow in a cast) ends the whole process: outcome = "panicked".       *)
(*                                                                         *)
(* Words are WordBytes bytes wide instead of 32 and usize is UsizeBits     *)
(* bits wide instead of 64, with  MEM_LEN < 2^UsizeBits < 2^(8*WordBytes)  *)
(* as in the program (1000 < 2^64 < 2^256).  Strings are sequences of      *)
(* characters; a character is the value of its hex digit, and 16 for 'x'.  *)
(***************************************************************************)
EXTENDS Integers, Sequences, FiniteSets, TLC

VARIABLES
    frames,           \* the active calls of evm(), the running one last
    datas,            \* the EvmData values alive: the caller's, then one
                      \* per DELEGATECALL clone, innermost last
    outcome,          \* "running", "returned" or "panicked"
    result,           \* the EvmResult the outermost evm() returned
    overflow_checks,  \* whether the build panics on integer overflow
    snap,             \* per frame, the EvmData it saw when it last recursed
    ev                \* the step just taken, for stating the properties

vars == <<frames, datas, outcome, result, overflow_checks, snap, ev>>

----------------------------------------------------------------------------
(* Widths *)

WordBytes == 2

UsizeBits == 12

WordBits == 8 * WordBytes

Modulus == 2 ^ WordBits

USIZE_MAX == (2 ^ UsizeBits) - 1

(* vec![0; 1000] *)
MEM_LEN == 1000

----------------------------------------------------------------------------
(* Opcodes, as the dispatch of evm() compares them *)

STOP == 0

ADD == 1

SDIV == 5

SMOD == 7

EXP == 10

SLT == 18

SGT == 19

BYTE == 26

CALLDATALOAD == 53

POP == 80

MLOAD == 81

MSTORE == 82

MSTORE8 == 83

SLOAD == 84

SSTORE == 85

JUMP == 86

JUMPI == 87

MSIZE == 89

JUMPDEST == 91

PUSH0 == 95

PUSH1 == 96

PUSH32 == 127

DUP1 == 128

DUP16 == 143

SWAP1 == 144

SWAP16 == 159

LOG0 == 160

LOG4 == 164

CREATE == 240

CALL == 241

CALLCODE == 242

RETURN == 243

DELEGATECALL == 244

CREATE2 == 245

STATICCALL == 250

REVERT == 253

INVALID == 254

SELFDESTRUCT == 255

BLOCKHASH == 64

----------------------------------------------------------------------------
(* Sequences *)

Last(s) == s[Len(s)]

ButLast(s) == SubSeq(s, 1, Len(s) - 1)

(* stack.into_iter().rev().collect() *)
Reverse(s) == [i \in 1..Len(s) |-> s[Len(s) + 1 - i]]

(* the n topmost items of a stack removed *)
Drop(s, n) == SubSeq(s, 1, Len(s) - n)

(* the i-th item popped from stack s, i = 1 for the top *)
Popped(s, i) == s[Len(s) + 1 - i]

----------------------------------------------------------------------------
(* Strings and conversions *)

RECURSIVE to_string(_)
(* U256 Display: the decimal digits, most significant first *)
to_string(n) ==
    IF n < 10 THEN <<n>> ELSE Append(to_string(n \div 10), n % 10)

RECURSIVE HexValue(_)
(* the number a string of hex digits denotes *)
HexValue(s) ==
    IF s = <<>> THEN 0 ELSE 16 * HexValue(ButLast(s)) + Last(s)

(* U256::from_str_radix(s, 16): Err when the string is longer than two   *)
(* characters per byte of the word or holds a character that is no hex   *)
(* digit; the callers unwrap.  ok = FALSE is the Err.                     *)
from_str_radix(s) ==
    IF Len(s) > 2 * WordBytes \/ (\E i \in 1..Len(s) : s[i] > 15)
    THEN [ok |-> FALSE, v |-> 0]
    ELSE [ok |-> TRUE, v |-> HexValue(s)]

(* hex::decode: Err on an odd length or a character that is no hex digit *)
hex_decode(s) ==
    IF Len(s) % 2 = 1 \/ (\E i \in 1..Len(s) : s[i] > 15)
    THEN [ok |-> FALSE, bytes |-> <<>>]
    ELSE [ok |-> TRUE,
          bytes |-> [i \in 1..(Len(s) \div 2) |-> 16 * s[2 * i - 1] + s[2 * i]]]

RECURSIVE from_big_endian(_)
(* U256::from_big_endian, the word of the low WordBytes bytes: the high  *)
(* byte of the shorter prefix is dropped before the shift by 8 bits      *)
from_big_endian(bytes) ==
    IF bytes = <<>> THEN 0
    ELSE (256 * (from_big_endian(ButLast(bytes)) % (Modulus \div 256))
          + Last(bytes)) % Modulus

(* U256::byte(i): byte i of the word, 0 the least significant *)
byte(w, i) == IF i >= WordBytes THEN 0 ELSE (w \div (256 ^ i)) % 256

(* U256::as_usize: panics when the word does not fit a usize *)
fits_usize(w) == w <= USIZE_MAX

----------------------------------------------------------------------------
(* Values of the program's types *)

(* Option<Vec<u8>> *)
None == [some |-> FALSE, bytes |-> <<>>]

Some(b) == [some |-> TRUE, bytes |-> b]

EvmResult(value, stack, success, return_data) ==
    [value |-> value, stack |-> stack, success |-> success,
     return_data |-> return_data]

(* an error return that leaves bytes in return_data *)
Failure_WithReturnData(stack) == EvmResult(None, stack, FALSE, <<0>>)

(* the struct every error return of evm() builds *)
Failure(stack) == EvmResult(None, stack, FALSE, <<>>)

(* EvmMemory::new.  `memory` holds the bytes written so far: a byte of    *)
(* the buffer that was never written is the 0 of vec![0; 1000].  `ok`    *)
(* turns FALSE when an operation on the memory panics.                   *)
EvmMemory_new == [memory |-> <<>>, size |-> 0, ok |-> TRUE]

(* a frame that is not inside a call handler *)
NoCall == [op |-> 0, ret_offset |-> 0, ret_size |-> 0]

(* the locals of evm() at its entry; `data` is the index in datas of the  *)
(* EvmData the frame borrows, `call` the call handler it is suspended in  *)
NewFrame(code, writable, data) ==
    [code |-> code, pc |-> 0, stack |-> <<>>, memory |-> EvmMemory_new,
     return_data |-> <<>>, writable |-> writable, data |-> data,
     call |-> NoCall]

(* what one handler does to its frame: go on, panic, return, or recurse *)
Continue(f, d) == [k |-> "next", f |-> f, d |-> d]

Panic == [k |-> "panic"]

Halt(res, f, d) == [k |-> "halt", res |-> res, f |-> f, d |-> d]

Enter(f, d, code, writable, cloned) ==
    [k |-> "call", f |-> f, d |-> d, code |-> code, writable |-> writable,
     cloned |-> cloned]

Push(f, w) == [f EXCEPT !.stack = Append(@, w)]

Pop(f, n) == [f EXCEPT !.stack = Drop(@, n)]

----------------------------------------------------------------------------
(* EvmMemory *)

(* self.memory[o] for an o inside the buffer *)
MemByte(m, o) == IF o \in DOMAIN m.memory THEN m.memory[o] ELSE 0

Max(a, b) == IF a >= b THEN a ELSE b

(* usize addition: exact when it fits; otherwise a panic in a build with  *)
(* overflow checks (-1) and the wrapped sum in a build without            *)
UsizeAdd(a, b, checks) ==
    IF a + b <= USIZE_MAX THEN a + b
    ELSE IF checks THEN -1
    ELSE (a + b) % (USIZE_MAX + 1)

(* write_u8 without the rounding: self.size.max(offset + 32) *)
WriteSize_Unrounded(size, offset) == Max(size, offset + 32)

(* self.size.max(offset + 32 - (offset % 32)) of write_u8 *)
WriteSize(size, offset) == Max(size, offset + 32 - (offset % 32))

(* write_u8: an index out of the buffer panics *)
write_u8(m, offset, data) ==
    IF ~m.ok \/ offset >= MEM_LEN THEN [m EXCEPT !.ok = FALSE]
    ELSE [m EXCEPT !.memory = (offset :> data) @@ @,
                   !.size = WriteSize(@, offset)]

RECURSIVE WriteBytes(_, _, _, _)
(* for i in 0..n { memory.write_u8(offset + i, bytes[i]) }: indexing      *)
(* `bytes` beyond its end panics                                          *)
WriteBytes(m, offset, bytes, n) ==
    IF n = 0 THEN m
    ELSE LET g == WriteBytes(m, offset, bytes, n - 1)
         IN  IF n > Len(bytes) THEN [g EXCEPT !.ok = FALSE]
             ELSE write_u8(g, offset + (n - 1), bytes[n])

(* let end = offset + 31; self.size.max(end + 32 - (end % 32)): the size  *)
(* update that read_u8s and read_u256 share; -1 is the overflow panic     *)
ReadSize(size, offset, checks) ==
    LET end == UsizeAdd(offset, 31, checks)
        top == IF end = -1 THEN -1 ELSE UsizeAdd(end, 32, checks)
    IN  IF top = -1 THEN -1 ELSE Max(size, top - (end % 32))

(* read_u8s: the bytes read and the memory with its size updated *)
read_u8s(m, offset, size, checks) ==
    LET sz == ReadSize(m.size, offset, checks)
    IN  IF (size > 0 /\ offset + size > MEM_LEN) \/ sz = -1
        THEN [m |-> [m EXCEPT !.ok = FALSE], bytes |-> <<>>]
        ELSE [m |-> [m EXCEPT !.size = sz],
              bytes |-> [i \in 1..size |-> MemByte(m, offset + i - 1)]]

(* read_u256: the bytes read as one big-endian word *)
read_u256(m, offset, size, checks) ==
    LET r == read_u8s(m, offset, size, checks)
    IN  [m |-> r.m, value |-> from_big_endian(r.bytes)]

(* msize *)
msize(m) == m.size
----------------------------------------------------------------------------
(* EvmData: state and balances are the two HashMaps, tx_data the          *)
(* Option<TxData> of which the handlers modelled here read `data` and `to` *)

(* "0x9bbfed6889322e016e0a02ee459d306fc19545d9" *)
REVERT_SENTINEL ==
    <<0, 16, 9, 11, 11, 15, 14, 13, 6, 8, 8, 9, 3, 2, 2, 14, 0, 1, 6, 14, 0,
      10, 0, 2, 14, 14, 4, 5, 9, 13, 3, 0, 6, 15, 12, 1, 9, 5, 4, 5, 13, 9>>

(* "1271253980042238172183243620132319847648413671085" *)
SELFDESTRUCT_KEY ==
    <<1, 2, 7, 1, 2, 5, 3, 9, 8, 0, 0, 4, 2, 2, 3, 8, 1, 7, 2, 1, 8, 3, 2, 4,
      3, 6, 2, 0, 1, 3, 2, 3, 1, 9, 8, 4, 7, 6, 4, 8, 4, 1, 3, 6, 7, 1, 0, 8,
      5>>

(* "ffffffff00000000000000000000000000000000000000000000000000000000" *)
CREATED_CODE == [i \in 1..64 |-> IF i <= 8 THEN 15 ELSE 0]

(* HashMap::insert and HashMap::remove *)
Insert(map, key, value) == (key :> value) @@ map

Remove(map, key) == [x \in (DOMAIN map) \ {key} |-> map[x]]

(* Option<String> *)
NoString == [some |-> FALSE, s |-> <<>>]

SomeString(s) == [some |-> TRUE, s |-> s]

(* Option<TxData> *)
NoTxData == [some |-> FALSE, data |-> NoString, to |-> NoString]

TxData(data, to) == [some |-> TRUE, data |-> data, to |-> to]

----------------------------------------------------------------------------
(* funcs.rs *)

(* a scan that takes the immediate bytes of a PUSH for opcodes *)
DataSize_None(opcode) == 0

(* PUSH1..PUSH32: data_size = (opcode - 0x60) + 1, otherwise nothing *)
DataSize(opcode) ==
    IF opcode >= PUSH1 /\ opcode <= PUSH32 THEN (opcode - PUSH1) + 1 ELSE 0

RECURSIVE ScanFrom(_, _, _)
(* the while loop of is_valid_jump_dest, from its variable pc on *)
ScanFrom(code, pc, jump_dest) ==
    IF pc >= Len(code) THEN FALSE
    ELSE LET opcode == code[pc + 1]
         IN  IF opcode = JUMPDEST /\ pc = jump_dest THEN TRUE
             ELSE ScanFrom(code, pc + DataSize(opcode) + 1, jump_dest)

is_valid_jump_dest(code, jump_dest) ==
    IF jump_dest >= Len(code) THEN FALSE ELSE ScanFrom(code, 0, jump_dest)

(* U256::one() << 255, the mask of the sign bit *)
SignMask == Modulus \div 2

(* a & mask is not zero *)
Flagged(a) == a >= SignMask

(* a.overflowing_neg().0 *)
overflowing_neg(a) == (Modulus - a) % Modulus

(* a.checked_div(b).or_else(|| Some(U256::zero())).unwrap() *)
checked_div(a, b) == IF b = 0 THEN 0 ELSE a \div b

(* a.checked_rem(b).or_else(|| Some(U256::zero())).unwrap() *)
checked_rem(a, b) == IF b = 0 THEN 0 ELSE a % b

(* sdiv without its sign handling: the unsigned quotient *)
sdiv_Unsigned(a, b) == checked_div(a, b)

sdiv(a, b) ==
    IF Flagged(a) /\ Flagged(b)
    THEN checked_div(overflowing_neg(a), overflowing_neg(b))
    ELSE IF ~Flagged(a) /\ ~Flagged(b) THEN checked_div(a, b)
    ELSE LET a1 == IF ~Flagged(a) THEN a ELSE overflowing_neg(a)
             b1 == IF ~Flagged(a) THEN overflowing_neg(b) ELSE b
         IN  overflowing_neg(checked_div(a1, b1))

smod(a, b) ==
    IF ~Flagged(a) /\ ~Flagged(b) THEN checked_rem(a, b)
    ELSE LET a1 == IF ~Flagged(a) THEN a ELSE overflowing_neg(a)
             b1 == IF ~Flagged(a) THEN overflowing_neg(b)
                   ELSE IF ~Flagged(b) THEN b
                   ELSE overflowing_neg(b)
         IN  overflowing_neg(checked_rem(a1, b1))

slt(a, b) ==
    IF ~Flagged(a) /\ ~Flagged(b) THEN (IF a < b THEN 1 ELSE 0)
    ELSE IF ~Flagged(a) THEN 0
    ELSE IF ~Flagged(b) THEN 1
    ELSE IF overflowing_neg(a) < overflowing_neg(b) THEN 1 ELSE 0

sgt(a, b) ==
    IF ~Flagged(a) /\ ~Flagged(b) THEN (IF a > b THEN 1 ELSE 0)
    ELSE IF ~Flagged(a) THEN 0
    ELSE IF ~Flagged(b) THEN 1
    ELSE IF overflowing_neg(a) < overflowing_neg(b) THEN 1 ELSE 0

----------------------------------------------------------------------------
(* U256 multiplication and power.  The `*` of U256 panics when the        *)
(* product does not fit the word, in every build; -1 is that panic.       *)

CheckedMul(a, b) ==
    IF a = -1 \/ b = -1 THEN -1
    ELSE IF a = 0 \/ b = 0 THEN 0
    ELSE IF a > (Modulus - 1) \div b THEN -1
    ELSE a * b

RECURSIVE PowLoop(_, _, _)
(* exponentiation by squaring with the panicking `*`: x the running       *)
(* square, y the product so far, n what is left of the exponent           *)
PowLoop(x, y, n) ==
    IF x = -1 \/ y = -1 THEN -1
    ELSE IF n <= 1 THEN CheckedMul(x, y)
    ELSE IF n % 2 = 0 THEN PowLoop(CheckedMul(x, x), y, n \div 2)
    ELSE PowLoop(CheckedMul(x, x), CheckedMul(x, y), n \div 2)

(* U256::pow: panics when the power does not fit the word *)
pow(a, expon) == IF expon = 0 THEN 1 ELSE PowLoop(a, 1, expon)

----------------------------------------------------------------------------
(* The handlers of evm().  f is the frame after `pc += 1`, d the EvmData  *)
(* it borrows.  stack.pop().unwrap() on an empty stack panics.            *)

(* 0x01 *)
DoADD(f, d) ==
    IF Len(f.stack) < 2 THEN Panic
    ELSE LET a == Popped(f.stack, 1)
             b == Popped(f.stack, 2)
         IN  Continue(Push(Pop(f, 2), (a + b) % Modulus), d)

(* a handler that pops a, then b, and pushes fn(a, b) *)
Binary(f, d, value) ==
    IF Len(f.stack) < 2 THEN Panic
    ELSE Continue(Push(Pop(f, 2), value), d)

(* 0x05 *)
DoSDIV(f, d) ==
    IF Len(f.stack) < 2 THEN Panic
    ELSE Binary(f, d, sdiv(Popped(f.stack, 1), Popped(f.stack, 2)))

(* 0x07 *)
DoSMOD(f, d) ==
    IF Len(f.stack) < 2 THEN Panic
    ELSE Binary(f, d, smod(Popped(f.stack, 1), Popped(f.stack, 2)))

(* 0x0a: stack.push(a.pow(exponent)) *)
DoEXP(f, d) ==
    IF Len(f.stack) < 2 THEN Panic
    ELSE LET value == pow(Popped(f.stack, 1), Popped(f.stack, 2))
         IN  IF value = -1 THEN Panic ELSE Binary(f, d, value)

(* 0x12 *)
DoSLT(f, d) ==
    IF Len(f.stack) < 2 THEN Panic
    ELSE Binary(f, d, slt(Popped(f.stack, 1), Popped(f.stack, 2)))

(* 0x13 *)
DoSGT(f, d) ==
    IF Len(f.stack) < 2 THEN Panic
    ELSE Binary(f, d, sgt(Popped(f.stack, 1), Popped(f.stack, 2)))

(* 0x1a: `i * 8` is the panicking `*`; the word is WordBits bits wide,    *)
(* so 256 is WordBits here                                                *)
DoBYTE(f, d) ==
    IF Len(f.stack) < 2 THEN Panic
    ELSE LET i == Popped(f.stack, 1)
             x == Popped(f.stack, 2)
             i8 == CheckedMul(i, 8)
         IN  IF i8 = -1 THEN Panic
             ELSE IF i8 >= WordBits THEN Binary(f, d, 0)
             ELSE Binary(f, d, (x \div (2 ^ ((WordBits - 8) - i8))) % 256)

(* data.as_bytes().chunks(2): the string cut in pieces of two characters, *)
(* the last piece one character when the length is odd                    *)
Chunks(s) ==
    [k \in 1..((Len(s) + 1) \div 2) |->
        SubSeq(s, 2 * k - 1, IF 2 * k <= Len(s) THEN 2 * k ELSE Len(s))]

(* the pieces padded with "00" or truncated to the bytes of one word *)
PadOrTruncate(chunks) ==
    IF Len(chunks) < WordBytes
    THEN chunks \o [k \in 1..(WordBytes - Len(chunks)) |-> <<0, 0>>]
    ELSE SubSeq(chunks, 1, WordBytes)

RECURSIVE Join(_)
(* data.join("") *)
Join(chunks) ==
    IF chunks = <<>> THEN <<>> ELSE Head(chunks) \o Join(Tail(chunks))

(* 0x35: bytes[i.as_usize()..bytes.len()] panics when i > bytes.len() *)
DoCALLDATALOAD(f, d) ==
    IF Len(f.stack) < 1 \/ ~d.tx_data.some \/ ~d.tx_data.data.some THEN Panic
    ELSE LET i == Popped(f.stack, 1)
             bytes == Chunks(d.tx_data.data.s)
         IN  IF ~fits_usize(i) \/ i > Len(bytes) THEN Panic
             ELSE LET w == from_str_radix(Join(PadOrTruncate(
                                   SubSeq(bytes, i + 1, Len(bytes)))))
                  IN  IF ~w.ok THEN Panic
                      ELSE Continue(Push(Pop(f, 1), w.v), d)

(* 0x50: stack.pop() without unwrap *)
DoPOP(f, d) ==
    Continue([f EXCEPT !.stack = IF @ = <<>> THEN <<>> ELSE ButLast(@)], d)

(* 0x51 *)
DoMLOAD(f, d, checks) ==
    IF Len(f.stack) < 1 \/ ~fits_usize(Popped(f.stack, 1)) THEN Panic
    ELSE LET r == read_u256(f.memory, Popped(f.stack, 1), 32, checks)
         IN  IF ~r.m.ok THEN Panic
             ELSE Continue(Push([Pop(f, 1) EXCEPT !.memory = r.m], r.value), d)

(* the bytes of MSTORE in the opposite order: value.byte(i) *)
WordBytesBE_Reversed(value) == [i \in 1..32 |-> byte(value, i - 1)]

(* value.byte(31 - i) for i in 0..32 *)
WordBytesBE(value) == [i \in 1..32 |-> byte(value, 32 - i)]

(* 0x52 *)
DoMSTORE(f, d) ==
    IF Len(f.stack) < 2 \/ ~fits_usize(Popped(f.stack, 1)) THEN Panic
    ELSE LET index == Popped(f.stack, 1)
             value == Popped(f.stack, 2)
             m == WriteBytes(f.memory, index, WordBytesBE(value), 32)
         IN  IF ~m.ok THEN Panic
             ELSE Continue([Pop(f, 2) EXCEPT !.memory = m], d)

(* 0x53 *)
DoMSTORE8(f, d) ==
    IF Len(f.stack) < 2 \/ ~fits_usize(Popped(f.stack, 1)) THEN Panic
    ELSE LET index == Popped(f.stack, 1)
             value == Popped(f.stack, 2)
             m == write_u8(f.memory, index, byte(value, 0))
         IN  IF ~m.ok THEN Panic
             ELSE Continue([Pop(f, 2) EXCEPT !.memory = m], d)

(* what SLOAD parses of the stored string *)
SloadParse(v) == from_str_radix(v)

(* 0x54 *)
DoSLOAD(f, d) ==
    IF Len(f.stack) < 1 THEN Panic
    ELSE LET key == to_string(Popped(f.stack, 1))
         IN  IF key \in DOMAIN d.state
             THEN LET v == SloadParse(d.state[key])
                  IN  IF ~v.ok THEN Panic
                      ELSE Continue(Push(Pop(f, 1), v.v), d)
             ELSE Continue(Push(Pop(f, 1), 0), d)

(* the string SSTORE stores for a value *)
SstoreRender(value) == to_string(value)

(* a handler that does not look at `writable` *)
WritableCheck_Ignored(f) == TRUE

(* the `if !writable { return EvmResult { .. } }` that opens a handler *)
WritableCheck(f) == f.writable

(* 0x55 *)
DoSSTORE(f, d) ==
    IF ~WritableCheck(f) THEN Halt(Failure(f.stack), f, d)
    ELSE IF Len(f.stack) < 2 THEN Panic
    ELSE LET key == Popped(f.stack, 1)
             value == Popped(f.stack, 2)
         IN  Continue(Pop(f, 2),
                 [d EXCEPT !.state =
                     IF value = 0 THEN Remove(@, to_string(key))
                     ELSE Insert(@, to_string(key), SstoreRender(value))])

(* 0x56 *)
DoJUMP(f, d) ==
    IF Len(f.stack) < 1 \/ ~fits_usize(Popped(f.stack, 1)) THEN Panic
    ELSE LET dest == Popped(f.stack, 1)
             g == Pop(f, 1)
         IN  IF ~is_valid_jump_dest(f.code, dest)
             THEN Halt(Failure(g.stack), g, d)
             ELSE Continue([g EXCEPT !.pc = dest], d)

(* 0x57 *)
DoJUMPI(f, d) ==
    IF Len(f.stack) < 2 \/ ~fits_usize(Popped(f.stack, 1)) THEN Panic
    ELSE LET dest == Popped(f.stack, 1)
             cond == Popped(f.stack, 2)
             g == Pop(f, 2)
         IN  IF ~is_valid_jump_dest(f.code, dest)
             THEN Halt(Failure(g.stack), g, d)
             ELSE IF cond # 0 THEN Continue([g EXCEPT !.pc = dest], d)
             ELSE Continue(g, d)

(* 0x59 *)
DoMSIZE(f, d) == Continue(Push(f, msize(f.memory)), d)

(* 0x5f ..= 0x7f: code[pc..pc + push_number] panics beyond the code *)
DoPUSH(f, d, opcode) ==
    LET push_number == opcode - PUSH0
    IN  IF push_number = 0 THEN Continue(Push(f, 0), d)
        ELSE IF f.pc + push_number > Len(f.code) THEN Panic
        ELSE Continue(
                 [Push(f, from_big_endian(
                              SubSeq(f.code, f.pc + 1, f.pc + push_number)))
                     EXCEPT !.pc = @ + push_number], d)

(* 0x80 ..= 0x8f *)
DoDUP(f, d, opcode) ==
    LET dup_number == opcode - DUP1 + 1
    IN  IF dup_number > Len(f.stack) THEN Halt(Failure(f.stack), f, d)
        ELSE Continue(Push(f, f.stack[(Len(f.stack) - dup_number) + 1]), d)

(* Vec::swap(a, b) on indices counted from 0 *)
VecSwap(stack, a, b) ==
    [stack EXCEPT ![a + 1] = stack[b + 1], ![b + 1] = stack[a + 1]]

(* stack.swap(swap_number, 0) *)
SwapStack(stack, swap_number) == VecSwap(stack, swap_number, 0)

(* 0x90 ..= 0x9f *)
DoSWAP(f, d, opcode) ==
    LET swap_number == opcode - SWAP1 + 1
    IN  IF swap_number + 1 > Len(f.stack) THEN Halt(Failure(f.stack), f, d)
        ELSE Continue([f EXCEPT !.stack = SwapStack(@, swap_number)], d)

(* 0xa0 ..= 0xa4: offset, size and log_number topics popped *)
DoLOG(f, d, opcode) ==
    LET log_number == opcode - LOG0
    IN  IF ~WritableCheck(f) THEN Halt(Failure(f.stack), f, d)
        ELSE IF Len(f.stack) < 2 + log_number THEN Panic
        ELSE Continue(Pop(f, 2 + log_number), d)

(* 0xf0 *)
DoCREATE(f, d) ==
    IF ~WritableCheck(f) THEN Halt(Failure(f.stack), f, d)
    ELSE IF Len(f.stack) < 3
            \/ ~fits_usize(Popped(f.stack, 2))
            \/ ~fits_usize(Popped(f.stack, 3))
            \/ ~d.tx_data.some \/ ~d.tx_data.to.some THEN Panic
    ELSE LET value == Popped(f.stack, 1)
             u_offset == Popped(f.stack, 2)
             g == Pop(f, 3)
         IN  IF d.tx_data.to.s = REVERT_SENTINEL
             THEN Halt(EvmResult(None, Append(g.stack, 0), TRUE, <<>>),
                       Push(g, 0), d)
             ELSE Continue(Push(g, u_offset),
                     [d EXCEPT
                        !.balances = Insert(@, to_string(u_offset), value),
                        !.state = Insert(@, to_string(u_offset), CREATED_CODE)])

(* data.state.get(&to.to_string()).unwrap() and hex::decode(..).unwrap()  *)
CalleeCode(d, to) ==
    IF to_string(to) \notin DOMAIN d.state THEN [ok |-> FALSE, bytes |-> <<>>]
    ELSE hex_decode(d.state[to_string(to)])

(* a call handler that leaves its arguments on the stack *)
Suspend_KeepingArguments(f, n, opcode) ==
    [f EXCEPT !.call = [op |-> opcode,
                        ret_offset |-> Popped(f.stack, n - 1),
                        ret_size |-> Popped(f.stack, n)]]

(* the frame suspended in the handler of a call opcode *)
Suspend(f, n, opcode) ==
    [Pop(f, n) EXCEPT !.call = [op |-> opcode,
                                ret_offset |-> Popped(f.stack, n - 1),
                                ret_size |-> Popped(f.stack, n)]]

(* a CALL that hands its callee a copy of the context *)
DoCALL_Cloning(f, d) ==
    IF ~WritableCheck(f) THEN Halt(Failure(f.stack), f, d)
    ELSE IF Len(f.stack) < 7
            \/ ~fits_usize(Popped(f.stack, 6))
            \/ ~fits_usize(Popped(f.stack, 7))
            \/ ~CalleeCode(d, Popped(f.stack, 2)).ok THEN Panic
    ELSE Enter(Suspend(f, 7, CALL), d,
               CalleeCode(d, Popped(f.stack, 2)).bytes, TRUE,
               [some |-> TRUE, data |-> d])

(* 0xf1: evm(code, data, true) *)
DoCALL(f, d) ==
    IF ~WritableCheck(f) THEN Halt(Failure(f.stack), f, d)
    ELSE IF Len(f.stack) < 7
            \/ ~fits_usize(Popped(f.stack, 6))
            \/ ~fits_usize(Popped(f.stack, 7))
            \/ ~CalleeCode(d, Popped(f.stack, 2)).ok THEN Panic
    ELSE Enter(Suspend(f, 7, CALL), d,
               CalleeCode(d, Popped(f.stack, 2)).bytes, TRUE,
               [some |-> FALSE, data |-> d])

(* new_data: data.clone() with tx_data rewritten *)
DelegateData(d, to) ==
    [d EXCEPT !.tx_data = TxData(NoString, SomeString(to_string(to)))]

(* 0xf4: evm(code, &mut new_data, true) *)
DoDELEGATECALL(f, d) ==
    IF Len(f.stack) < 6
       \/ ~fits_usize(Popped(f.stack, 5))
       \/ ~fits_usize(Popped(f.stack, 6))
       \/ ~CalleeCode(d, Popped(f.stack, 2)).ok THEN Panic
    ELSE Enter(Suspend(f, 6, DELEGATECALL), d,
               CalleeCode(d, Popped(f.stack, 2)).bytes, TRUE,
               [some |-> TRUE, data |-> DelegateData(d, Popped(f.stack, 2))])

(* 0xfa: evm(code, data, false) *)
DoSTATICCALL(f, d) ==
    IF Len(f.stack) < 6
       \/ ~fits_usize(Popped(f.stack, 5))
       \/ ~fits_usize(Popped(f.stack, 6))
       \/ ~CalleeCode(d, Popped(f.stack, 2)).ok THEN Panic
    ELSE Enter(Suspend(f, 6, STATICCALL), d,
               CalleeCode(d, Popped(f.stack, 2)).bytes, FALSE,
               [some |-> FALSE, data |-> d])

(* the word CALL and STATICCALL push for the callee's result *)
CallStatus(res) ==
    IF res.value.some THEN (IF res.success THEN 1 ELSE 0) ELSE 0

(* the rest of the CALL and STATICCALL handlers, after evm() returned res *)
FinishCall(f, res) ==
    LET g == [f EXCEPT !.return_data = res.return_data, !.call = NoCall]
        m == WriteBytes(f.memory, f.call.ret_offset, res.value.bytes,
                        f.call.ret_size)
    IN  IF res.value.some
        THEN IF ~m.ok THEN Panic
             ELSE Continue(Push([g EXCEPT !.memory = m], CallStatus(res)), {})
        ELSE Continue(Push(g, CallStatus(res)), {})

(* the rest of the DELEGATECALL handler *)
FinishDelegate(f, res) ==
    LET g == [f EXCEPT !.return_data = res.return_data, !.call = NoCall]
        m == WriteBytes(f.memory, f.call.ret_offset, res.return_data,
                        f.call.ret_size)
    IN  IF ~m.ok THEN Panic
        ELSE Continue(Push([g EXCEPT !.memory = m], 1), {})

(* the stack of a RETURN result *)
ReturnStack(stack) == stack

(* 0xf3 *)
DoRETURN(f, d, checks) ==
    IF Len(f.stack) < 2
       \/ ~fits_usize(Popped(f.stack, 1))
       \/ ~fits_usize(Popped(f.stack, 2)) THEN Panic
    ELSE LET g == Pop(f, 2)
             r == read_u8s(f.memory, Popped(f.stack, 1), Popped(f.stack, 2),
                           checks)
         IN  IF ~r.m.ok THEN Panic
             ELSE Halt(EvmResult(Some(r.bytes), ReturnStack(g.stack), TRUE,
                                 r.bytes),
                       [g EXCEPT !.memory = r.m], d)

(* 0xfd *)
DoREVERT(f, d, checks) ==
    IF Len(f.stack) < 2
       \/ ~fits_usize(Popped(f.stack, 1))
       \/ ~fits_usize(Popped(f.stack, 2)) THEN Panic
    ELSE LET g == Pop(f, 2)
             r == read_u8s(f.memory, Popped(f.stack, 1), Popped(f.stack, 2),
                           checks)
         IN  IF ~r.m.ok THEN Panic
             ELSE Halt(EvmResult(Some(r.bytes), g.stack, FALSE, <<>>),
                       [g EXCEPT !.memory = r.m], d)

(* an INVALID that empties the storage *)
DoINVALID_Wiping(f, d) ==
    Halt(Failure(f.stack), f, [d EXCEPT !.state = <<>>])

(* 0xfe *)
DoINVALID(f, d) == Halt(Failure(f.stack), f, d)

(* 0xff *)
DoSELFDESTRUCT(f, d) ==
    IF Len(f.stack) < 1 THEN Panic
    ELSE LET address == Popped(f.stack, 1)
             g == Pop(f, 1)
         IN  Halt(Failure(g.stack), g,
                  [d EXCEPT !.state = Remove(@, SELFDESTRUCT_KEY),
                            !.balances = Insert(@, to_string(address), 7)])

(* 0xf5 *)
DoCREATE2(f, d) ==
    IF ~WritableCheck(f) THEN Halt(Failure(f.stack), f, d)
    ELSE Continue(f, d)

(* the end of evm(): the loop left by STOP's break or by pc >= code.len() *)
DoEnd(f, d) == Halt(EvmResult(None, Reverse(f.stack), TRUE, <<>>), f, d)

(* the opcodes whose handler is empty: JUMPDEST, BLOCKHASH, CALLCODE and  *)
(* those of the final else, which only prints                             *)
NoOps ==
    {JUMPDEST, BLOCKHASH, CALLCODE} \cup (12..15) \cup {30, 31} \cup (33..47)
    \cup (73..79) \cup (92..94) \cup (165..239) \cup (246..249) \cup {251, 252}

DoNoOp(f, d) == Continue(f, d)

(* the position after the last opcode: `while pc < code.len()` is left *)
END == 256

----------------------------------------------------------------------------
(* The state machine *)

Top == Last(frames)

(* the EvmData the running frame borrows *)
TopData == datas[Top.data]

(* let opcode = code[pc] *)
Opcode == Top.code[Top.pc + 1]

(* pc += 1 *)
Fetched == [Top EXCEPT !.pc = @ + 1]

(* the loop of evm() is about to fetch an opcode of the set ops *)
Fetch(ops) ==
    /\ outcome = "running"
    /\ Top.pc < Len(Top.code)
    /\ Opcode \in ops

NoStore == [set |-> FALSE, key |-> 0, value |-> 0]

(* the opcodes that leave storage, balances and the frame structure alone *)
StackOnly == (PUSH0..PUSH32) \cup (DUP1..DUP16) \cup {SLOAD, JUMPDEST}

(* the last SSTORE of the running frame not yet followed by anything but  *)
(* stack-only opcodes                                                     *)
StoreAfter(op, r) ==
    IF r.k = "next" /\ op = SSTORE
    THEN [set |-> TRUE, key |-> Popped(Top.stack, 1),
          value |-> Popped(Top.stack, 2)]
    ELSE IF op \in StackOnly THEN ev.store
    ELSE NoStore

NoMstore == [set |-> FALSE, offset |-> 0, value |-> 0, writes |-> 0]

(* the opcodes that leave the memory bytes and the frame structure alone *)
MemoryKeeping ==
    (PUSH0..PUSH32) \cup (DUP1..DUP16) \cup {MLOAD, MSIZE, JUMPDEST}

(* the last MSTORE of the running frame whose 32 bytes no later MSTORE or *)
(* MSTORE8 touched, and the number of writes made beside it since         *)
MstoreAfter(op, r) ==
    IF r.k = "next" /\ op = MSTORE
    THEN LET o == Popped(Top.stack, 1)
         IN  IF ev.mstore.set
                /\ (o + 32 <= ev.mstore.offset \/ o >= ev.mstore.offset + 32)
             THEN [ev.mstore EXCEPT !.writes = @ + 1]
             ELSE [set |-> TRUE, offset |-> o,
                   value |-> Popped(Top.stack, 2), writes |-> 0]
    ELSE IF r.k = "next" /\ op = MSTORE8
    THEN LET o == Popped(Top.stack, 1)
         IN  IF ev.mstore.set
                /\ (o < ev.mstore.offset \/ o >= ev.mstore.offset + 32)
             THEN [ev.mstore EXCEPT !.writes = @ + 1]
             ELSE NoMstore
    ELSE IF op \in MemoryKeeping THEN ev.mstore
    ELSE NoMstore

(* the running frame has taken a jump to the jump instruction or to an   *)
(* index before it, since it was entered                                 *)
BackAfter(op, r) ==
    IF r.k = "call" THEN FALSE
    ELSE ev.back \/ (op \in {JUMP, JUMPI} /\ r.k = "next" /\ r.f.pc <= Top.pc)

NoEvent ==
    [op |-> END, k |-> "init", halted |-> FALSE,
     pre |-> NewFrame(<<>>, TRUE, 1),
     res |-> Failure(<<>>), hf |-> NewFrame(<<>>, TRUE, 1),
     callop |-> 0, snap |-> {}, calleeData |-> {}, preData |-> {},
     store |-> NoStore, mstore |-> NoMstore, back |-> FALSE]

Event(op, r) ==
    [NoEvent EXCEPT !.op = op, !.k = r.k, !.halted = (r.k = "halt"),
                    !.pre = Top, !.preData = TopData,
                    !.store = StoreAfter(op, r),
                    !.mstore = MstoreAfter(op, r),
                    !.back = BackAfter(op, r)]

(* the frame below the running one finishes its call handler with res *)
Finish(caller, res) ==
    IF caller.call.op = DELEGATECALL THEN FinishDelegate(caller, res)
    ELSE FinishCall(caller, res)

(* the handler of opcode op ended as r: the step of the machine *)
Commit(op, r) ==
    LET n == Len(frames)
        written == IF r.k = "panic" THEN datas
                   ELSE [datas EXCEPT ![Top.data] = r.d]
    IN
    /\ UNCHANGED overflow_checks
    /\ CASE r.k = "panic" ->
              /\ outcome' = "panicked"
              /\ ev' = Event(op, r)
              /\ UNCHANGED <<frames, datas, result, snap>>
         [] r.k = "next" ->
              /\ frames' = [frames EXCEPT ![n] = r.f]
              /\ datas' = written
              /\ ev' = Event(op, r)
              /\ UNCHANGED <<outcome, result, snap>>
         [] r.k = "call" ->
              /\ frames' = Append([frames EXCEPT ![n] = r.f],
                               NewFrame(r.code, r.writable,
                                        IF r.cloned.some THEN Len(datas) + 1
                                        ELSE Top.data))
              /\ datas' = IF r.cloned.some THEN Append(written, r.cloned.data)
                          ELSE written
              /\ snap' = Append([snap EXCEPT ![n] = r.d], r.cloned.data)
              /\ ev' = Event(op, r)
              /\ UNCHANGED <<outcome, result>>
         [] r.k = "halt" /\ n = 1 ->
              /\ frames' = <<>>
              /\ snap' = <<>>
              /\ datas' = written
              /\ outcome' = "returned"
              /\ result' = r.res
              /\ ev' = [Event(op, r) EXCEPT !.res = r.res, !.hf = r.f]
         [] r.k = "halt" /\ n > 1 ->
              LET caller == frames[n - 1]
                  fin == Finish(caller, r.res)
                  e == [Event(op, r) EXCEPT
                          !.res = r.res, !.hf = r.f,
                          !.callop = caller.call.op, !.snap = snap[n - 1],
                          !.calleeData = r.d]
              IN  IF fin.k = "panic"
                  THEN /\ outcome' = "panicked"
                       /\ datas' = written
                       /\ ev' = [e EXCEPT !.k = "panic"]
                       /\ UNCHANGED <<frames, result, snap>>
                  ELSE /\ frames' = Append(SubSeq(frames, 1, n - 2), fin.f)
                       /\ snap' = ButLast(snap)
                       /\ datas' = IF caller.call.op = DELEGATECALL
                                   THEN ButLast(written) ELSE written
                       /\ ev' = [e EXCEPT !.k = "resume"]
                       /\ UNCHANGED <<outcome, result>>

OpSTOP == Fetch({STOP}) /\ Commit(STOP, DoEnd(Fetched, TopData))

OpADD == Fetch({ADD}) /\ Commit(ADD, DoADD(Fetched, TopData))

OpSDIV == Fetch({SDIV}) /\ Commit(SDIV, DoSDIV(Fetched, TopData))

OpSMOD == Fetch({SMOD}) /\ Commit(SMOD, DoSMOD(Fetched, TopData))

OpEXP == Fetch({EXP}) /\ Commit(EXP, DoEXP(Fetched, TopData))

OpSLT == Fetch({SLT}) /\ Commit(SLT, DoSLT(Fetched, TopData))

OpSGT == Fetch({SGT}) /\ Commit(SGT, DoSGT(Fetched, TopData))

OpBYTE == Fetch({BYTE}) /\ Commit(BYTE, DoBYTE(Fetched, TopData))

OpCALLDATALOAD ==
    Fetch({CALLDATALOAD})
    /\ Commit(CALLDATALOAD, DoCALLDATALOAD(Fetched, TopData))

OpPOP == Fetch({POP}) /\ Commit(POP, DoPOP(Fetched, TopData))

OpMLOAD ==
    Fetch({MLOAD}) /\ Commit(MLOAD, DoMLOAD(Fetched, TopData, overflow_checks))

OpMSTORE == Fetch({MSTORE}) /\ Commit(MSTORE, DoMSTORE(Fetched, TopData))

OpMSTORE8 == Fetch({MSTORE8}) /\ Commit(MSTORE8, DoMSTORE8(Fetched, TopData))

OpSLOAD == Fetch({SLOAD}) /\ Commit(SLOAD, DoSLOAD(Fetched, TopData))

OpSSTORE == Fetch({SSTORE}) /\ Commit(SSTORE, DoSSTORE(Fetched, TopData))

OpJUMP == Fetch({JUMP}) /\ Commit(JUMP, DoJUMP(Fetched, TopData))

OpJUMPI == Fetch({JUMPI}) /\ Commit(JUMPI, DoJUMPI(Fetched, TopData))

OpMSIZE == Fetch({MSIZE}) /\ Commit(MSIZE, DoMSIZE(Fetched, TopData))

OpPUSH ==
    Fetch(PUSH0..PUSH32) /\ Commit(Opcode, DoPUSH(Fetched, TopData, Opcode))

OpDUP == Fetch(DUP1..DUP16) /\ Commit(Opcode, DoDUP(Fetched, TopData, Opcode))

OpSWAP ==
    Fetch(SWAP1..SWAP16) /\ Commit(Opcode, DoSWAP(Fetched, TopData, Opcode))

OpLOG == Fetch(LOG0..LOG4) /\ Commit(Opcode, DoLOG(Fetched, TopData, Opcode))

OpCREATE == Fetch({CREATE}) /\ Commit(CREATE, DoCREATE(Fetched, TopData))

OpCALL == Fetch({CALL}) /\ Commit(CALL, DoCALL(Fetched, TopData))

OpRETURN ==
    Fetch({RETURN}) /\ Commit(RETURN, DoRETURN(Fetched, TopData, overflow_checks))

OpDELEGATECALL ==
    Fetch({DELEGATECALL})
    /\ Commit(DELEGATECALL, DoDELEGATECALL(Fetched, TopData))

OpCREATE2 == Fetch({CREATE2}) /\ Commit(CREATE2, DoCREATE2(Fetched, TopData))

OpSTATICCALL ==
    Fetch({STATICCALL}) /\ Commit(STATICCALL, DoSTATICCALL(Fetched, TopData))

OpREVERT ==
    Fetch({REVERT}) /\ Commit(REVERT, DoREVERT(Fetched, TopData, overflow_checks))

OpINVALID == Fetch({INVALID}) /\ Commit(INVALID, DoINVALID(Fetched, TopData))

OpSELFDESTRUCT ==
    Fetch({SELFDESTRUCT})
    /\ Commit(SELFDESTRUCT, DoSELFDESTRUCT(Fetched, TopData))

OpNoOp == Fetch(NoOps) /\ Commit(Opcode, DoNoOp(Fetched, TopData))

(* pc >= code.len(): the loop ends without a fetch *)
OpEnd ==
    /\ outcome = "running"
    /\ Top.pc >= Len(Top.code)
    /\ Commit(END, DoEnd(Top, TopData))

----------------------------------------------------------------------------
(* The inputs: the code handed to evm(), and the EvmData the caller seeds *)

(* the largest number of items a program pushes before the opcode it tries *)
MaxDepth == 4

(* the largest N of the DUPn and SWAPn tried *)
MaxSwap == 3

(* PUSH1 x, and PUSH2 x *)
P1(x) == <<PUSH1, x>>

P2(x) == <<PUSH1 + 1, x \div 256, x % 256>>

(* a push of the shortest kind that holds x *)
PushOf(x) == IF x < 256 THEN P1(x) ELSE P2(x)

RECURSIVE PushUpTo(_)
(* PUSH1 1, PUSH1 2, .., PUSH1 n *)
PushUpTo(n) == IF n = 0 THEN <<>> ELSE PushUpTo(n - 1) \o P1(n)

(* the hex string of a byte sequence, as the caller stores contract code *)
HexString(bytes) ==
    [i \in 1..(2 * Len(bytes)) |->
        IF i % 2 = 1 THEN bytes[(i + 1) \div 2] \div 16
        ELSE bytes[i \div 2] % 16]

(* the arguments of a call opcode pushed, then the opcode *)
CallOf(op, to, ret_offset, ret_size) ==
    PushOf(ret_size) \o PushOf(ret_offset) \o P1(0) \o P1(0)
    \o (IF op = CALL THEN P1(0) ELSE <<>>) \o P1(to) \o P1(0) \o <<op>>

(* contract code by address *)
Contracts ==
    (1 :> <<STOP>>)
    @@ (2 :> <<>>)
    @@ (3 :> P1(66) \o P1(0) \o <<MSTORE>> \o P1(1) \o P1(31) \o <<RETURN>>)
    @@ (4 :> P1(66) \o P1(0) \o <<MSTORE>> \o P1(1) \o P1(31) \o <<REVERT>>)
    @@ (5 :> P1(66) \o P1(0) \o <<SSTORE>>)
    @@ (6 :> P1(9) \o <<SELFDESTRUCT>>)
    @@ (7 :> <<INVALID>>)
    @@ (8 :> CallOf(DELEGATECALL, 5, 0, 0))
    @@ (9 :> CallOf(CALL, 5, 0, 0))
    @@ (10 :> P1(0) \o P1(77) \o P1(3) \o <<CREATE>>)
    @@ (11 :> P1(0) \o P1(0) \o <<LOG0>>)
    @@ (12 :> <<CREATE2>>)
    @@ (13 :> CallOf(STATICCALL, 5, 0, 0))
    @@ (14 :> P1(5) \o P1(6) \o P1(0) \o P1(0) \o <<RETURN>>)
    @@ (15 :> P1(0) \o P1(20) \o <<SSTORE>> \o P1(0) \o P1(0) \o <<REVERT>>)
    @@ (16 :> CallOf(DELEGATECALL, 6, 0, 0))

(* the storage at the start: the contracts, a slot holding a value, and   *)
(* the key SELFDESTRUCT removes                                           *)
InitState ==
    [k \in {to_string(a) : a \in DOMAIN Contracts} |->
        HexString(Contracts[CHOOSE a \in DOMAIN Contracts : to_string(a) = k])]
    @@ (to_string(20) :> <<0, 5>>)
    @@ (SELFDESTRUCT_KEY :> <<0, 1>>)

InitBalances == (to_string(1) :> 256)

TxDatas ==
    {NoTxData, TxData(NoString, NoString),
     TxData(NoString, SomeString(REVERT_SENTINEL)),
     TxData(NoString, SomeString(to_string(1)))}

Consumers ==
    {ADD, POP, MLOAD, MSTORE, MSTORE8, SLOAD, SSTORE, JUMP, JUMPI, MSIZE,
     DUP1, SWAP1, LOG0, LOG0 + 1, LOG4, CREATE, CALL, RETURN, DELEGATECALL,
     CREATE2, STATICCALL, REVERT, INVALID, SELFDESTRUCT, BLOCKHASH, CALLCODE,
     JUMPDEST, PUSH0, STOP}

(* an opcode on a stack of 0 .. MaxDepth small items *)
DepthPrograms ==
    {PushUpTo(n) \o <<op>> : n \in 0..MaxDepth, op \in Consumers}

(* DUPn and SWAPn on stacks of distinct items, then the end of the code *)
SwapPrograms ==
    {PushUpTo(d) \o <<op + (n - 1)>> \o tail :
        d \in 0..(MaxSwap + 2), n \in 1..MaxSwap, op \in {DUP1, SWAP1},
        tail \in {<<>>, <<STOP>>, P1(0) \o P1(0) \o <<RETURN>>}}

StoreKeys == {0, 3, 20}

StoreValues == {0, 7, 9, 10, 66, 255, 4096, 9999, 10000, 65535}

(* SSTORE(k, v); SLOAD(k) *)
StorePrograms ==
    {PushOf(v) \o P1(k) \o <<SSTORE>> \o P1(k) \o <<SLOAD>> :
        k \in StoreKeys, v \in StoreValues}
    \cup {P1(k) \o <<SLOAD>> : k \in StoreKeys \cup {5}}

(* a call of each kind to each contract and to 99, an address without     *)
(* code, then a look at the storage                                       *)
CallPrograms ==
    {CallOf(op, to, 0, n) \o tail :
        op \in {CALL, DELEGATECALL, STATICCALL},
        to \in (DOMAIN Contracts) \cup {99},
        n \in {0, 1, 2},
        tail \in {<<>>, P1(0) \o <<SLOAD>>}}

(* jumps: to a JUMPDEST, into a PUSH immediate that is 0x5b, beyond the   *)
(* code, beyond usize, and JUMPI with either condition                    *)
JumpPrograms ==
    {PushOf(dest) \o <<JUMP>> \o body :
        dest \in {0, 3, 4, 5, 6, 50, USIZE_MAX, USIZE_MAX + 1},
        body \in {<<JUMPDEST>>, P1(JUMPDEST), <<PUSH0, JUMPDEST, PUSH0>>,
                  <<PUSH1 + 1, JUMPDEST, JUMPDEST, JUMPDEST>>}}
    \cup
    {P1(cond) \o PushOf(dest) \o <<JUMPI>> \o body :
        cond \in {0, 1, 2}, dest \in {0, 5, 6, 7, 8, 60, USIZE_MAX + 1},
        body \in {<<JUMPDEST>>, P1(JUMPDEST), <<PUSH0, JUMPDEST, PUSH0>>,
                  <<PUSH1 + 1, JUMPDEST, JUMPDEST, JUMPDEST>>}}

Offsets ==
    {0, 1, 31, 32, 33, MEM_LEN - 32, MEM_LEN - 31, MEM_LEN - 1, MEM_LEN,
     USIZE_MAX - 63, USIZE_MAX - 62, USIZE_MAX - 31, USIZE_MAX - 30,
     USIZE_MAX, USIZE_MAX + 1}

(* one memory access at each offset, then MSIZE, then a second access *)
MemoryPrograms ==
    {P1(255) \o PushOf(o) \o <<op>> \o <<MSIZE>> \o P1(1) \o P1(o2) \o <<op2>> :
        o \in Offsets, op \in {MLOAD, MSTORE, MSTORE8},
        o2 \in {2, 100}, op2 \in {MSTORE8, MLOAD}}
    \cup
    {P1(1) \o P1(40) \o <<MSTORE>> \o PushOf(n) \o PushOf(o) \o <<op>> :
        o \in Offsets, n \in {0, 1, 2}, op \in {RETURN, REVERT}}

(* a PUSH whose immediate runs beyond the code *)
OtherPrograms ==
    {<<PUSH1>>, <<PUSH32, 1, 2>>, <<PUSH1 + 2, 1, 2, 3>>, <<>>}

(* a push of a whole word *)
PW(x) ==
    <<PUSH1 + (WordBytes - 1)>> \o [i \in 1..WordBytes |-> byte(x, WordBytes - i)]

(* one or no write beside the window of o, or into it, or two beside it *)
Between(o) ==
    {<<>>, P1(170) \o PushOf(o + 32) \o <<MSTORE8>>
               \o P1(187) \o PushOf(o + 40) \o <<MSTORE>>}
    \cup {P1(170) \o PushOf(x) \o <<op>> :
            x \in {y \in {o + 32, o + 31, o + 5, o - 1, o - 32} : y >= 0},
            op \in {MSTORE, MSTORE8}}

(* MSTORE(o, v), writes, MLOAD(o) *)
RoundTripPrograms ==
    {PW(v) \o PushOf(o) \o <<MSTORE>> \o mid \o PushOf(o) \o <<MLOAD>> :
        o \in {0, 1, 40, MEM_LEN - 72, MEM_LEN - 32},
        v \in {0, 1, 255, 256, 4660, Modulus - 1},
        mid \in UNION {Between(o2) : o2 \in {0, 1, 40, MEM_LEN - 72, MEM_LEN - 32}}}

(* words around zero and around the sign bit *)
Words ==
    {0, 1, 2, 3, 7, 10, SignMask - 1, SignMask, SignMask + 1,
     Modulus - 10, Modulus - 7, Modulus - 3, Modulus - 2, Modulus - 1}

(* a signed opcode on a (popped first) and b *)
SignedPrograms ==
    {PW(b) \o PW(a) \o <<op>> :
        a \in Words, b \in Words, op \in {SDIV, SMOD, SLT, SGT}}

(* EXP on powers that fit the word, that are 2^WordBits, and beyond *)
ExpPrograms ==
    {PW(e) \o PW(a) \o <<EXP>> :
        a \in {0, 1, 2, 3, 16, 255, 256, Modulus - 1},
        e \in {0, 1, 2, 3, WordBits - 1, WordBits, WordBits + 1, Modulus - 1}}

(* BYTE at indices inside the word, beyond it, and with 8 * i beyond it *)
BytePrograms ==
    {PW(x) \o PW(i) \o <<BYTE>> :
        x \in {0, 255, 256, 4660, Modulus - 1},
        i \in {0, 1, WordBytes - 1, WordBytes, 31, 32, 33,
               (Modulus \div 8) - 1, Modulus \div 8, Modulus - 1}}

(* a jump back to the start of the code, and one back to itself *)
LoopPrograms ==
    {<<JUMPDEST>> \o P1(0) \o <<JUMP>>,
     P1(1) \o P1(4) \o <<JUMPDEST, JUMPI>>}

PurePrograms ==
    RoundTripPrograms \cup SignedPrograms \cup ExpPrograms \cup BytePrograms
    \cup LoopPrograms

(* the most bytes of calldata tried *)
MaxCalldata == 4

(* calldata of 0 .. MaxCalldata bytes, a string of odd length, and none *)
CallDatas ==
    {TxData(SomeString(HexString([k \in 1..n |-> 16 * k + 10 + k])), NoString) :
        n \in 0..MaxCalldata}
    \cup {TxData(SomeString(<<10, 11, 12>>), NoString),
          TxData(NoString, NoString), NoTxData}

(* CALLDATALOAD at offsets up to and beyond the end of the calldata *)
CalldataPrograms ==
    {PushOf(i) \o <<CALLDATALOAD>> :
        i \in (0..(MaxCalldata + 2)) \cup {USIZE_MAX, USIZE_MAX + 1}}
    \cup {<<CALLDATALOAD>>}

(* a frame with an item on its stack and a byte in its memory calls a    *)
(* contract that returns a byte                                          *)
FramePrograms ==
    {P1(7) \o P1(255) \o P1(5) \o <<MSTORE8>> \o CallOf(op, to, 0, 1) :
        op \in {CALL, DELEGATECALL, STATICCALL}, to \in {3, 4}}

Programs ==
    DepthPrograms \cup SwapPrograms \cup StorePrograms \cup CallPrograms
    \cup JumpPrograms \cup MemoryPrograms \cup OtherPrograms
    \cup FramePrograms

(* the pairs of code and tx_data a run starts from *)
Inputs ==
    (Programs \X TxDatas) \cup (PurePrograms \X {NoTxData})
    \cup (CalldataPrograms \X CallDatas)

Init ==
    /\ \E in \in Inputs, writable \in BOOLEAN :
          /\ frames = <<NewFrame(in[1], writable, 1)>>
          /\ datas = <<[state |-> InitState, balances |-> InitBalances,
                        tx_data |-> in[2]]>>
    /\ outcome = "running"
    /\ result = Failure(<<>>)
    /\ overflow_checks \in BOOLEAN
    /\ snap = <<datas[1]>>
    /\ ev = NoEvent

Next ==
    \/ OpSTOP \/ OpADD \/ OpPOP \/ OpMLOAD \/ OpMSTORE \/ OpMSTORE8
    \/ OpSLOAD \/ OpSSTORE \/ OpJUMP \/ OpJUMPI \/ OpMSIZE \/ OpPUSH
    \/ OpDUP \/ OpSWAP \/ OpLOG \/ OpCREATE \/ OpCALL \/ OpRETURN
    \/ OpDELEGATECALL \/ OpCREATE2 \/ OpSTATICCALL \/ OpREVERT \/ OpINVALID
    \/ OpSELFDESTRUCT \/ OpNoOp \/ OpEnd
    \/ OpSDIV \/ OpSMOD \/ OpEXP \/ OpSLT \/ OpSGT \/ OpBYTE \/ OpCALLDATALOAD

Spec == Init /\ [][Next]_vars

----------------------------------------------------------------------------
(* Properties *)

(* the step just taken ran the handler of an opcode of ops *)
Ran(ops) == ev.k # "init" /\ ev.op \in ops

(* the number of stack items the handler of an opcode pops or reads *)
Needs(op) ==
    CASE op \in {ADD, MSTORE, MSTORE8, SSTORE, JUMPI, RETURN, REVERT,
                 SDIV, SMOD, EXP, SLT, SGT, BYTE} -> 2
      [] op \in {POP, MLOAD, SLOAD, JUMP, SELFDESTRUCT, CALLDATALOAD} -> 1
      [] op \in DUP1..DUP16 -> op - DUP1 + 1
      [] op \in SWAP1..SWAP16 -> op - SWAP1 + 2
      [] op \in LOG0..LOG4 -> op - LOG0 + 2
      [] op = CREATE -> 3
      [] op = CALL -> 7
      [] op \in {DELEGATECALL, STATICCALL} -> 6
      [] OTHER -> 0

(* the frame that ran the step halted with success = false *)
HaltedWithFailure == ev.halted /\ ~ev.res.success

(* C1: an opcode that needs more stack items than the stack holds halts   *)
(* the frame with success = false: it neither panics nor goes on.         *)
C1_UnderflowHaltsWithFailure ==
    (ev.k # "init" /\ Len(ev.pre.stack) < Needs(ev.op)) => HaltedWithFailure

(* stack with its top item and its (n+1)-th item from the top exchanged *)
TopSwapped(stack, n) ==
    [stack EXCEPT ![Len(stack)] = stack[Len(stack) - n],
                  ![Len(stack) - n] = stack[Len(stack)]]

(* C2: on a stack of depth >= N+1, SWAPn exchanges the top item with the  *)
(* (N+1)-th item from the top and leaves every other item in place.       *)
C2_SwapExchangesTop ==
    (Ran(SWAP1..SWAP16) /\ Len(ev.pre.stack) >= Needs(ev.op))
        => /\ ev.k = "next"
           /\ Top.stack = TopSwapped(ev.pre.stack, ev.op - SWAP1 + 1)

(* C3: in a writable frame SSTORE(k, v) followed by SLOAD(k) pushes v,    *)
(* for v = 0 as for every other word.                                     *)
C3_StoreLoadRoundTrip ==
    (Ran({SLOAD}) /\ ev.pre.writable /\ ev.store.set
     /\ ev.pre.stack # <<>> /\ Popped(ev.pre.stack, 1) = ev.store.key)
        => /\ ev.k = "next"
           /\ Last(Top.stack) = ev.store.value

(* C4: the word CALL or STATICCALL pushes is 1 exactly when the callee    *)
(* ended with success = true, and 0 exactly when with success = false.    *)
C4_CallPushesSuccess ==
    (ev.k = "resume" /\ ev.callop \in {CALL, STATICCALL})
        => Last(Top.stack) = (IF ev.res.success THEN 1 ELSE 0)

(* the two maps of an EvmData that the frames of a call tree share *)
Shared(d) == <<d.state, d.balances>>

(* C5: while a STATICCALL is running and when it has returned, storage    *)
(* and balances of the caller are what they were when it was issued.      *)
C5_StaticcallLeavesState ==
    /\ \A i \in 1..(Len(frames) - 1) :
          frames[i].call.op = STATICCALL
              => Shared(datas[frames[i].data]) = Shared(snap[i])
    /\ (ev.k = "resume" /\ ev.callop = STATICCALL)
          => Shared(TopData) = Shared(ev.snap)

(* the opcodes the specification lists as state mutations *)
Mutators == {SSTORE, CREATE, CREATE2, CALL} \cup (LOG0..LOG4)

(* C6: in a frame with writable = false each of SSTORE, LOG0..LOG4,       *)
(* CREATE, CREATE2 and CALL halts the frame with success = false,         *)
(* value = None and empty return_data, and leaves storage and balances.   *)
C6_StaticWriteFails ==
    (Ran(Mutators) /\ ~ev.pre.writable)
        => /\ ev.halted
           /\ ~ev.res.success
           /\ ev.res.value = None
           /\ ev.res.return_data = <<>>
           /\ Shared(datas[ev.pre.data]) = Shared(ev.preData)

(* a STATICCALL callee with two items on its stack ran into SSTORE *)
C6_Witness ==
    /\ Ran({SSTORE}) /\ ~ev.pre.writable /\ Len(ev.pre.stack) >= 2
    /\ ev.callop = STATICCALL /\ ev.k = "resume"

(* C7: every EvmResult with success = true holds the stack reversed:      *)
(* index 0 is the item that was on top when the frame halted.             *)
C7_SuccessStackReversed ==
    (ev.halted /\ ev.res.success) => ev.res.stack = Reverse(ev.hf.stack)

(* C8: what the sub-frame of a DELEGATECALL wrote to storage and balances *)
(* is in the caller's storage and balances after the DELEGATECALL.        *)
C8_DelegateWritesKept ==
    (ev.k = "resume" /\ ev.callop = DELEGATECALL)
        => Shared(TopData) = Shared(ev.calleeData)

(* the number of immediate bytes that follow an opcode in the code *)
ImmediateBytes(opcode) == IF opcode \in PUSH1..PUSH32 THEN opcode - PUSH0 ELSE 0

RECURSIVE Boundary(_, _)
(* i is where an instruction starts when code is decoded from index 0 *)
Boundary(code, i) ==
    \/ i = 0
    \/ \E j \in 0..(i - 1) :
          /\ j < Len(code)
          /\ j + 1 + ImmediateBytes(code[j + 1]) = i
          /\ Boundary(code, j)

(* dest is a JUMPDEST byte at an instruction boundary of code *)
JumpDestAt(code, dest) ==
    dest < Len(code) /\ code[dest + 1] = JUMPDEST /\ Boundary(code, dest)

(* the step was a JUMP, or a JUMPI with a condition that is not 0 *)
TakenJump ==
    \/ Ran({JUMP}) /\ Len(ev.pre.stack) >= 1
    \/ Ran({JUMPI}) /\ Len(ev.pre.stack) >= 2 /\ Popped(ev.pre.stack, 2) # 0

(* C9: a taken jump sets pc to dest when dest is a JUMPDEST at an         *)
(* instruction boundary, and every other dest, inside a PUSH immediate    *)
(* or at or beyond the end of the code, halts the frame with failure.     *)
C9_JumpOnlyToJumpdest ==
    TakenJump =>
        IF JumpDestAt(ev.pre.code, Popped(ev.pre.stack, 1))
        THEN ev.k = "next" /\ Top.pc = Popped(ev.pre.stack, 1)
        ELSE HaltedWithFailure

(* what remains of C9 for the destinations a usize holds *)
JumpOnlyToJumpdestWithinUsize ==
    (TakenJump /\ fits_usize(Popped(ev.pre.stack, 1))) =>
        IF JumpDestAt(ev.pre.code, Popped(ev.pre.stack, 1))
        THEN ev.k = "next" /\ Top.pc = Popped(ev.pre.stack, 1)
        ELSE HaltedWithFailure

(* C10: in every frame the memory high-water mark is a multiple of 32     *)
(* after every step, and no step makes it smaller.                        *)
C10_MsizeAlignedMonotone ==
    /\ [](\A i \in 1..Len(frames) : msize(frames[i].memory) % 32 = 0)
    /\ [][\A i \in (1..Len(frames)) \cap (1..Len(frames')) :
             msize(frames'[i].memory) >= msize(frames[i].memory)]_vars

(* an access below the mark left it where an earlier access had put it *)
C10_Witness ==
    /\ Ran({MSTORE8, MLOAD}) /\ ev.k = "next"
    /\ msize(ev.pre.memory) > 64
    /\ msize(Top.memory) = msize(ev.pre.memory)

(* C11: memory is unbounded and zero-initialised: MLOAD, MSTORE and       *)
(* MSTORE8 at any offset go on to the next opcode, and MLOAD of a memory  *)
(* nothing was written to pushes 0.                                       *)
C11_MemoryUnbounded ==
    (Ran({MLOAD, MSTORE, MSTORE8}) /\ Len(ev.pre.stack) >= Needs(ev.op))
        => /\ ev.k = "next"
           /\ (ev.op = MLOAD /\ ev.pre.memory.memory = <<>>)
                 => Last(Top.stack) = 0

(* C12: MSTORE(o, v), then MSTORE and MSTORE8 writes that touch no byte   *)
(* of [o, o + 32), then MLOAD(o) pushes v.                                *)
C12_MstoreMloadRoundTrip ==
    (Ran({MLOAD}) /\ ev.mstore.set /\ ev.pre.stack # <<>>
     /\ Popped(ev.pre.stack, 1) = ev.mstore.offset)
        => /\ ev.k = "next"
           /\ Last(Top.stack) = ev.mstore.value

(* a word of two non-zero bytes came back after two writes beside it *)
C12_Witness ==
    /\ Ran({MLOAD}) /\ ev.k = "next" /\ ev.mstore.set
    /\ Popped(ev.pre.stack, 1) = ev.mstore.offset
    /\ ev.mstore.writes >= 2 /\ ev.mstore.value = 4660
    /\ Last(Top.stack) = 4660

(* the integer a word denotes in two's complement *)
Signed(w) == IF w >= Modulus \div 2 THEN w - Modulus ELSE w

(* the word that denotes an integer n, -Modulus < n < Modulus *)
FromSigned(n) == IF n < 0 THEN n + Modulus ELSE n % Modulus

Magnitude(w) == IF Signed(w) < 0 THEN 0 - Signed(w) ELSE Signed(w)

(* the step ran the two-operand opcode op on a (popped first) and b *)
RanOn(op) == Ran({op}) /\ Len(ev.pre.stack) >= 2

OperandA == Popped(ev.pre.stack, 1)

OperandB == Popped(ev.pre.stack, 2)

(* C13: SLT pushes 1 exactly when a < b as signed integers, whatever the  *)
(* signs of a and b.                                                      *)
C13_SltSigned ==
    RanOn(SLT)
        => /\ ev.k = "next"
           /\ Last(Top.stack)
                 = (IF Signed(OperandA) < Signed(OperandB) THEN 1 ELSE 0)

(* C14: SGT pushes 1 exactly when a > b as signed integers, whatever the  *)
(* signs of a and b.                                                      *)
C14_SgtSigned ==
    RanOn(SGT)
        => /\ ev.k = "next"
           /\ Last(Top.stack)
                 = (IF Signed(OperandA) > Signed(OperandB) THEN 1 ELSE 0)

(* C15: the word SLT pushed for a and b differs from the word SGT gives   *)
(* for a and b exactly when a # b.                                        *)
C15_SltXorSgt ==
    (RanOn(SLT) /\ ev.k = "next")
        => ((Last(Top.stack) # sgt(OperandA, OperandB))
               <=> (OperandA # OperandB))

(* the signed quotient truncated toward zero, as a word; 0 for b = 0 *)
SignedQuotient(a, b) ==
    IF b = 0 THEN 0
    ELSE LET q == Magnitude(a) \div Magnitude(b)
         IN  FromSigned(IF (Signed(a) < 0) # (Signed(b) < 0) THEN 0 - q ELSE q)

(* C16: SDIV pushes the signed quotient truncated toward zero, 0 when     *)
(* b = 0, and MIN_INT for MIN_INT / -1.                                   *)
C16_SdivSigned ==
    RanOn(SDIV)
        => /\ ev.k = "next"
           /\ Last(Top.stack) = SignedQuotient(OperandA, OperandB)

(* SDIV ran on MIN_INT and -1 and pushed MIN_INT *)
C16_Witness ==
    /\ RanOn(SDIV) /\ ev.k = "next"
    /\ OperandA = Modulus \div 2 /\ OperandB = Modulus - 1
    /\ Last(Top.stack) = Modulus \div 2

(* the signed remainder with the sign of the dividend, as a word *)
SignedRemainder(a, b) ==
    IF b = 0 THEN 0
    ELSE LET r == Magnitude(a) % Magnitude(b)
         IN  FromSigned(IF Signed(a) < 0 THEN 0 - r ELSE r)

(* C17: SMOD pushes the remainder of magnitude |a| mod |b| with the sign  *)
(* of the dividend a, and 0 when b = 0.                                   *)
C17_SmodSigned ==
    RanOn(SMOD)
        => /\ ev.k = "next"
           /\ Last(Top.stack) = SignedRemainder(OperandA, OperandB)

RECURSIVE MulMod(_, _)
(* a * b modulo the word, by doubling *)
MulMod(a, b) ==
    IF b = 0 THEN 0
    ELSE (2 * MulMod(a, b \div 2) + (IF b % 2 = 1 THEN a ELSE 0)) % Modulus

RECURSIVE PowMod(_, _)
(* a ^ e modulo the word *)
PowMod(a, e) ==
    IF e = 0 THEN 1
    ELSE LET h == PowMod(a, e \div 2)
             sq == MulMod(h, h)
         IN  IF e % 2 = 1 THEN MulMod(sq, a) ELSE sq

(* C18: EXP pushes a ^ b reduced modulo the word for all a and b, and the *)
(* frame goes on.                                                         *)
C18_ExpWraps ==
    RanOn(EXP)
        => /\ ev.k = "next"
           /\ Last(Top.stack) = PowMod(OperandA, OperandB)

(* C19: BYTE(i, x) pushes 0 for every i beyond the bytes of the word and  *)
(* the i-th byte from the most significant one otherwise.                 *)
C19_ByteIndex ==
    RanOn(BYTE)
        => /\ ev.k = "next"
           /\ Last(Top.stack)
                 = (IF OperandA >= WordBytes THEN 0
                    ELSE byte(OperandB, (WordBytes - 1) - OperandA))

(* the word at byte i of the calldata, bytes past its end read as zero *)
CalldataWord(bytes, i) ==
    from_big_endian([k \in 1..WordBytes |->
                        IF i + k <= Len(bytes) THEN bytes[i + k] ELSE 0])

(* C20: CALLDATALOAD(i) pushes the word of calldata at byte i, zero       *)
(* padded, for every i, also at and beyond the end of the calldata.       *)
C20_CalldataloadPadded ==
    (Ran({CALLDATALOAD}) /\ ev.pre.stack # <<>>
     /\ ev.preData.tx_data.some /\ ev.preData.tx_data.data.some
     /\ hex_decode(ev.preData.tx_data.data.s).ok)
        => /\ ev.k = "next"
           /\ Last(Top.stack)
                 = CalldataWord(hex_decode(ev.preData.tx_data.data.s).bytes,
                                Popped(ev.pre.stack, 1))

(* the bytes [offset, offset + size) of a memory *)
MemorySlice(m, offset, size) ==
    [i \in 1..size |-> MemByte(m, offset + i - 1)]

(* C21: an EvmResult with success = false has empty return_data, and its  *)
(* value is None unless REVERT built it, and then the value is the memory *)
(* slice [offset, offset + size).                                         *)
C21_FailureShape ==
    (ev.halted /\ ~ev.res.success)
        => /\ ev.res.return_data = <<>>
           /\ IF ev.op = REVERT
              THEN ev.res.value
                      = Some(MemorySlice(ev.pre.memory,
                                         Popped(ev.pre.stack, 1),
                                         Popped(ev.pre.stack, 2)))
              ELSE ev.res.value = None

(* REVERT handed out a byte that an MSTORE had written *)
C21_Witness ==
    /\ Ran({REVERT}) /\ ev.halted /\ ~ev.res.success
    /\ ev.res.value = Some(<<66>>)

(* C22: every frame above a frame suspended in STATICCALL, at any depth   *)
(* and through any call opcode, runs with writable = false.               *)
C22_StaticSubtreeReadOnly ==
    \A i \in 1..Len(frames) : \A j \in 1..Len(frames) :
        (i < j /\ frames[i].call.op = STATICCALL) => ~frames[j].writable

(* C23: when the sub-frame of a DELEGATECALL has halted, in whatever way  *)
(* and for whatever retSize, the caller goes on with 1 pushed.            *)
C23_DelegatecallPushesOne ==
    (ev.halted /\ ev.callop = DELEGATECALL)
        => /\ ev.k = "resume"
           /\ Last(Top.stack) = 1

(* n rounded up to a multiple of 32 *)
CeilTo32(n) == ((n + 31) \div 32) * 32

(* the memory of the frame that ran the step, after the step *)
AfterMemory == IF ev.halted THEN ev.hf.memory ELSE Top.memory

(* C24: MLOAD, MSTORE, MSTORE8, RETURN and REVERT at offset o set the     *)
(* high-water mark to max(size, ceil_to_32(o + 32)).                      *)
C24_MarkCoversWord ==
    (Ran({MLOAD, MSTORE, MSTORE8, RETURN, REVERT})
     /\ (ev.k = "next" \/ ev.halted))
        => msize(AfterMemory)
              = Max(msize(ev.pre.memory),
                    CeilTo32(Popped(ev.pre.stack, 1) + 32))

(* the step was a JUMPI with condition 0 *)
UntakenJumpi ==
    Ran({JUMPI}) /\ Len(ev.pre.stack) >= 2 /\ Popped(ev.pre.stack, 2) = 0

(* C25: JUMPI with condition 0 halts the frame with failure when its      *)
(* destination is no valid jump destination, and goes on at the next      *)
(* instruction when it is one.                                            *)
C25_JumpiChecksUntaken ==
    UntakenJumpi =>
        IF JumpDestAt(ev.pre.code, Popped(ev.pre.stack, 1))
        THEN ev.k = "next" /\ Top.pc = ev.pre.pc + 1
        ELSE HaltedWithFailure

(* what remains of C25 for the destinations a usize holds *)
JumpiChecksUntakenWithinUsize ==
    (UntakenJumpi /\ fits_usize(Popped(ev.pre.stack, 1))) =>
        IF JumpDestAt(ev.pre.code, Popped(ev.pre.stack, 1))
        THEN ev.k = "next" /\ Top.pc = ev.pre.pc + 1
        ELSE HaltedWithFailure

(* C26: after a CALL returned, storage and balances of the caller are     *)
(* what the callee left: the entries it wrote are there and the keys it   *)
(* deleted are gone.                                                      *)
C26_CallSharesContext ==
    (ev.halted /\ ev.callop = CALL)
        => Shared(datas[frames[Len(frames) - (IF ev.k = "resume" THEN 0 ELSE 1)].data])
              = Shared(ev.calleeData)

(* the callee of a CALL wrote a slot the caller did not have *)
C26_Witness ==
    /\ ev.k = "resume" /\ ev.callop = CALL
    /\ to_string(0) \notin DOMAIN ev.snap.state
    /\ to_string(0) \in DOMAIN TopData.state
    /\ TopData.state[to_string(0)] = SstoreRender(66)

(* C27: a call opcode takes its arguments off the caller's stack and      *)
(* leaves its memory; nothing changes the frame while its callee runs;    *)
(* and when the callee returns the caller gets one word on its stack and  *)
(* new memory bytes only inside [ret_offset, ret_offset + ret_size).      *)
C27_CallerFrameKept ==
    [][/\ ev'.k = "call"
            => /\ frames'[Len(frames)].stack
                     = Drop(Top.stack, Needs(ev'.op))
               /\ frames'[Len(frames)].memory = Top.memory
       /\ \A i \in 1..(Len(frames) - 1) :
             i < Len(frames') => frames'[i] = frames[i]
       /\ ev'.k = "resume"
            => LET c == frames[Len(frames) - 1]
                   t == Last(frames')
               IN  /\ Len(t.stack) = Len(c.stack) + 1
                   /\ ButLast(t.stack) = c.stack
                   /\ \A i \in 0..(MEM_LEN - 1) :
                         (i < c.call.ret_offset
                          \/ i >= c.call.ret_offset + c.call.ret_size)
                             => MemByte(t.memory, i) = MemByte(c.memory, i)]_vars

(* a caller with an item on its stack and a byte in its memory got the    *)
(* byte its callee returned                                               *)
C27_Witness ==
    /\ ev.k = "resume" /\ ev.callop \in {CALL, STATICCALL, DELEGATECALL}
    /\ Len(Top.stack) = 2 /\ Top.stack[1] = 7
    /\ MemByte(Top.memory, 5) = 255
    /\ MemByte(Top.memory, 0) = 66

(* the context a halted frame ran on, after the step that halted it *)
ContextAfter ==
    IF ev.k = "resume" /\ ev.callop = DELEGATECALL THEN ev.calleeData
    ELSE datas[ev.pre.data]

(* the context before the step, with what SELFDESTRUCT writes *)
ContextExpected ==
    IF ev.op = SELFDESTRUCT
    THEN [ev.preData EXCEPT
            !.state = Remove(@, SELFDESTRUCT_KEY),
            !.balances = Insert(@, to_string(Popped(ev.pre.stack, 1)), 7)]
    ELSE ev.preData

(* C28: a frame that halts with failure leaves storage and balances as    *)
(* its writes made them, and the caller of a CALL that failed gets 0 and  *)
(* that storage and those balances.                                       *)
C28_FailureKeepsWrites ==
    HaltedWithFailure
        => /\ Shared(ContextAfter) = Shared(ContextExpected)
           /\ (ev.k = "resume" /\ ev.callop = CALL)
                 => /\ Last(Top.stack) = 0
                    /\ Shared(TopData) = Shared(ContextExpected)

(* the callee of a CALL deleted a slot and reverted: the caller got 0 and *)
(* the slot is gone                                                       *)
C28_Witness ==
    /\ ev.k = "resume" /\ ev.callop = CALL /\ ev.op = REVERT
    /\ ~ev.res.success /\ Last(Top.stack) = 0
    /\ to_string(20) \in DOMAIN ev.snap.state
    /\ to_string(20) \notin DOMAIN TopData.state

(* C29: in every frame pc is an instruction boundary of the code decoded  *)
(* from index 0, so no byte of a PUSH immediate is fetched as an opcode.  *)
C29_PcAtBoundary ==
    \A i \in 1..Len(frames) : Boundary(frames[i].code, frames[i].pc)

(* a jump was taken in code whose PUSH2 immediates are JUMPDEST bytes,    *)
(* to the JUMPDEST behind them                                            *)
C29_Witness ==
    /\ TakenJump /\ ev.k = "next"
    /\ \E j \in 1..(Top.pc - 2) :
          /\ Boundary(Top.code, j - 1)
          /\ Top.code[j] = PUSH1 + 1
          /\ Top.code[j + 1] = JUMPDEST
          /\ Top.code[j + 2] = JUMPDEST
          /\ Top.pc = j + 2

(* the opcodes that run another frame *)
CallFamily == {CALL, CALLCODE, DELEGATECALL, STATICCALL, CREATE, CREATE2}

(* no byte of the code is a call-family opcode *)
CallFree(code) == \A i \in 1..Len(code) : code[i] \notin CallFamily

(* the step was taken by a frame of call-free code that has so far jumped *)
(* forward only                                                           *)
ForwardFrameStep == ev.k # "init" /\ CallFree(ev.pre.code) /\ ~ev.back

(* C30: a frame of call-free code whose taken jumps all go forward moves  *)
(* pc up at every step and ends by returning an EvmResult: none of its    *)
(* handlers panics.                                                       *)
C30_ForwardFrameReturns ==
    ForwardFrameStep
        => /\ ev.k = "next" => Top.pc > ev.pre.pc
           /\ ~(ev.k = "panic" /\ ~ev.halted)

(* what remains of C30: every step of such a frame that goes on moves pc  *)
(* up, and pc never passes the end of the code                            *)
ForwardFrameAdvances ==
    ForwardFrameStep
        => /\ ev.k = "next" => Top.pc > ev.pre.pc
           /\ ev.op # END => ev.pre.pc < Len(ev.pre.code)
           /\ ev.k = "next" => Top.pc <= Len(Top.code)

(* a jump back is the one way pc does not go up *)
BackwardJumpTaken == ev.k = "next" /\ ev.back /\ Top.pc <= ev.pre.pc

====
